---- MODULE Spec2Model ----
(***************************************************************************)
(* Model of the users REST API (Express router + Mongoose model `User`).   *)
(*                                                                         *)
(* The `users` collection is a set of documents.  Every route handler of  *)
(* routes/users.js makes exactly one Mongoose call; Mongoose validates in  *)
(* the server process and then issues one atomic storage operation.  Under *)
(* Spec every handler is one action (the requests are served one after     *)
(* another); under ConcSpec a handler is split at its `await`, so that the *)
(* storage operations of requests in flight interleave.  RoutersSpec adds  *)
(* the groups router and its collection `groups`, ServerSpec is the        *)
(* application of server.js with the routers it mounts, and FaultSpec is   *)
(* the users router with a storage whose calls can fail.                   *)
(*                                                                         *)
(* A username or a password is a string, of which the schema reads the     *)
(* length; an email is the tuple of its characters, which the schema       *)
(* matches against a pattern.  ObjectIds are the numbers *)
(* 1..MaxIds; every other number is a string that does not cast to an      *)
(* ObjectId.  An optional value (a key that may be missing from a JSON     *)
(* body) is a set with no or one element.  The version key __v that        *)
(* Mongoose adds to every document is left out.                            *)
(***************************************************************************)
EXTENDS Integers, Sequences, FiniteSets, TLC

VARIABLES users, used, gone, last, flight, live, groups, glast, conn

vars == <<users, used, gone, last, flight, live, groups, glast, conn>>

(***************************************************************************)
(* Bounds of the model.                                                    *)
(***************************************************************************)
\* number of distinct ObjectIds
MaxIds == 2
\* number of requests that can be in flight at once (ConcSpec)
MaxInFlight == 2

(***************************************************************************)
(* The schema's numbers (models/User.js).                                  *)
(***************************************************************************)
UsernameMinLength == 3
UsernameMaxLength == 50
PasswordMinLength == 6

(***************************************************************************)
(* Values.                                                                 *)
(***************************************************************************)
Opt(S) == {{}} \cup {{x} : x \in S}
Val(o) == CHOOSE x \in o : TRUE

Ids == 1..MaxIds
\* identifiers that are not syntactically ObjectIds, e.g. "abc" and "12"
BadIds == {0, -1}
IsObjectId(id) == id \in Ids

\* "", "ab", "abc", 50 and 51 letters
UsernamePool ==
  { "", "ab", "abc",
    "aaaaaaaaaabbbbbbbbbbccccccccccddddddddddeeeeeeeeee",
    "aaaaaaaaaabbbbbbbbbbccccccccccddddddddddeeeeeeeeeef" }
\* "invalid", "@b.c", "a@b.c", "x@y.z"
EmailPool ==
  { <<"i", "n", "v", "a", "l", "i", "d">>, <<"@", "b", ".", "c">>,
    <<"a", "@", "b", ".", "c">>, <<"x", "@", "y", ".", "z">> }
PasswordPool == { "12345", "123456" }

\* req.body without a key
NoBody ==
  [ username |-> {}, email |-> {}, password |-> {}, _id |-> {},
    minUsername |-> {} ]
\* req.body with keys of the schema: each key is present or missing
PlainBodies ==
  [ username : Opt(UsernamePool), email : Opt(EmailPool),
    password : Opt(PasswordPool), _id : Opt(Ids \cup {0}),
    minUsername : {{}} ]
\* req.body with an update operator as a key: {"$min": {"username": ""}},
\* alone and next to a username
OperatorBodies ==
  { [NoBody EXCEPT !.minUsername = {""}],
    [NoBody EXCEPT !.minUsername = {""}, !.username = {"abc"}] }
Bodies == PlainBodies \cup OperatorBodies

(***************************************************************************)
(* The schema's validators.  Mongoose reports, for each path, the first    *)
(* validator that fails: required, then the others in schema order.        *)
(***************************************************************************)
NonSpace(c) == c \notin {" "}

\* /\S+@\S+\.\S+/ (not anchored)
EmailMatch(s) ==
  \E i \in 1..Len(s), j \in 1..Len(s) :
    /\ s[i] = "@" /\ s[j] = "."
    /\ i >= 2 /\ NonSpace(s[i - 1])
    /\ j >= i + 2 /\ \A k \in (i + 1)..(j - 1) : NonSpace(s[k])
    /\ j < Len(s) /\ NonSpace(s[j + 1])

Required(o) == o = {} \/ Len(Val(o)) = 0

\* mutant: the minlength validator of username is missing
usernameErrorNoMin(o) ==
  IF Required(o) THEN {<<"username", "required">>}
  ELSE IF Len(Val(o)) > UsernameMaxLength THEN {<<"username", "maxlength">>}
  ELSE {}

usernameError(o) ==
  IF Required(o) THEN {<<"username", "required">>}
  ELSE IF Len(Val(o)) < UsernameMinLength THEN {<<"username", "minlength">>}
  ELSE IF Len(Val(o)) > UsernameMaxLength THEN {<<"username", "maxlength">>}
  ELSE {}

emailError(o) ==
  IF Required(o) THEN {<<"email", "required">>}
  ELSE IF ~EmailMatch(Val(o)) THEN {<<"email", "match">>}
  ELSE {}

passwordError(o) ==
  IF Required(o) THEN {<<"password", "required">>}
  ELSE IF Len(Val(o)) < PasswordMinLength THEN {<<"password", "minlength">>}
  ELSE {}

\* casting the _id of a body to ObjectId
idCastError(o) ==
  IF o # {} /\ ~IsObjectId(Val(o)) THEN {<<"_id", "cast">>} ELSE {}

\* document.validate(): every path of the schema
userSchema(body) ==
  idCastError(body._id) \cup usernameError(body.username)
    \cup emailError(body.email) \cup passwordError(body.password)

\* mutant: the update validators skip the password
updateValidatorsNoPassword(body) ==
  (IF body.username = {} THEN {} ELSE usernameError(body.username))
    \cup (IF body.email = {} THEN {} ELSE emailError(body.email))

\* update validators (runValidators: true): only the paths the update sets;
\* a path under $min is not validated
updateValidators(body) ==
  (IF body.username = {} THEN {} ELSE usernameError(body.username))
    \cup (IF body.email = {} THEN {} ELSE emailError(body.email))
    \cup (IF body.password = {} THEN {} ELSE passwordError(body.password))

(***************************************************************************)
(* Responses: res.status(..).json(..).                                     *)
(***************************************************************************)
JsonDoc(st, d) ==
  [ status |-> st, kind |-> "doc", docs |-> {d}, text |-> "", detail |-> {},
    value |-> {} ]
JsonList(ds) ==
  [ status |-> 200, kind |-> "list", docs |-> ds, text |-> "", detail |-> {},
    value |-> {} ]
JsonMsg(t) ==
  [ status |-> 200, kind |-> "msg", docs |-> {}, text |-> t, detail |-> {},
    value |-> {} ]
\* { error: <message> }: the message's text, the failed paths, the value in it
JsonError(st, t, dt, v) ==
  [ status |-> st, kind |-> "error", docs |-> {}, text |-> t, detail |-> dt,
    value |-> v ]
NoResponse ==
  [ status |-> 0, kind |-> "none", docs |-> {}, text |-> "", detail |-> {},
    value |-> {} ]

NotFound == JsonError(404, "User not found", {}, {})
InvalidId == JsonError(400, "Invalid user ID", {}, {})

(***************************************************************************)
(* The collection and the Mongoose calls.  A call's outcome is a document  *)
(* ("ok"), null ("null") or a thrown error ("throw"), and the collection   *)
(* after the call.                                                         *)
(***************************************************************************)
IdsOf(us) == {d._id : d \in us}
ById(us, id) == {d \in us : d._id = id}

Ok(d, us) ==
  [ tag |-> "ok", docs |-> {d}, text |-> "", detail |-> {}, value |-> {},
    users |-> us ]
Null(us) ==
  [ tag |-> "null", docs |-> {}, text |-> "", detail |-> {}, value |-> {},
    users |-> us ]
Throw(t, dt, v, us) ==
  [ tag |-> "throw", docs |-> {}, text |-> t, detail |-> dt, value |-> v,
    users |-> us ]

\* CastError of a query's _id: its message quotes the value
CastError(id, us) ==
  Throw("Cast to ObjectId failed", {<<"_id", "cast">>}, {id}, us)

\* mutant: the schema declares no unique index on email
emailUniqueOff(us, d) == TRUE

\* the unique index on email (unique: true): no other document has the email
emailUnique(us, d) == \A e \in us : e._id # d._id => e.email # d.email

\* the _id index of the collection
idUnique(us, d) == \A e \in us : e._id # d._id

\* new User(req.body): the body's _id if it has one, else a generated one
NewUser(body, oid) ==
  [ _id |-> oid, username |-> Val(body.username), email |-> Val(body.email),
    password |-> Val(body.password) ]

\* user.save(): validate, then one insert
save(us, body, oid) ==
  IF userSchema(body) # {}
    THEN Throw("User validation failed", userSchema(body), {}, us)
  ELSE IF ~idUnique(us, NewUser(body, oid))
    THEN Throw("E11000 duplicate key error", {<<"_id", "dup">>}, {}, us)
  ELSE IF ~emailUnique(us, NewUser(body, oid))
    THEN Throw("E11000 duplicate key error", {<<"email", "dup">>}, {}, us)
  ELSE Ok(NewUser(body, oid), us \cup {NewUser(body, oid)})

\* mutant: the query has a limit of one document
findLimitOne(us) == IF us = {} THEN {} ELSE {CHOOSE d \in us : TRUE}

\* User.find()
find(us) == us

\* mutant: the document that is found is removed
findByIdPops(us, id) ==
  IF ~IsObjectId(id) THEN CastError(id, us)
  ELSE IF ById(us, id) = {} THEN Null(us)
  ELSE Ok(Val(ById(us, id)), us \ ById(us, id))

\* mutant: an identifier that does not cast matches no document
findByIdNoCast(us, id) ==
  IF ById(us, id) = {} THEN Null(us) ELSE Ok(Val(ById(us, id)), us)

\* User.findById(id)
findById(us, id) ==
  IF ~IsObjectId(id) THEN CastError(id, us)
  ELSE IF ById(us, id) = {} THEN Null(us)
  ELSE Ok(Val(ById(us, id)), us)

\* mutant: the body replaces the document, a missing key clears the field
MergeReplace(d, body) ==
  [ _id |-> d._id,
    username |-> IF body.username = {} THEN "" ELSE Val(body.username),
    email |-> IF body.email = {} THEN <<>> ELSE Val(body.email),
    password |-> IF body.password = {} THEN "" ELSE Val(body.password) ]

\* $set of the keys of the body on a document, and $min on its username
\* ($min with "", the least string of the storage's order, always writes)
Merge(d, body) ==
  [ _id |-> d._id,
    username |-> IF body.minUsername # {} THEN Val(body.minUsername)
                 ELSE IF body.username = {} THEN d.username
                 ELSE Val(body.username),
    email |-> IF body.email = {} THEN d.email ELSE Val(body.email),
    password |-> IF body.password = {} THEN d.password ELSE Val(body.password) ]

\* mutant: the update inserts the document when none has the identifier
\* (upsert: true)
storeUpdateUpsert(us, id, body) ==
  LET d == IF ById(us, id) = {}
             THEN [ _id |-> id, username |-> "", email |-> <<>>, password |-> "" ]
             ELSE Val(ById(us, id))
  IN IF ~emailUnique(us, Merge(d, body))
       THEN Throw("E11000 duplicate key error", {<<"email", "dup">>}, {}, us)
       ELSE Ok(Merge(d, body), (us \ ById(us, id)) \cup {Merge(d, body)})

\* mutant: the update is written without a look at the unique index
storeUpdateNoIndex(us, id, body) ==
  IF ById(us, id) = {} THEN Null(us)
  ELSE Ok(Merge(Val(ById(us, id)), body),
          (us \ ById(us, id)) \cup {Merge(Val(ById(us, id)), body)})

\* the storage's findOneAndUpdate({_id: id}, {$set: .., $min: ..}),
\* new: true; an update that names a path twice is refused as it is parsed
storeUpdate(us, id, body) ==
  IF body.username # {} /\ body.minUsername # {}
    THEN Throw("Updating the path 'username' would create a conflict",
               {<<"username", "conflict">>}, {}, us)
  ELSE IF ById(us, id) = {} THEN Null(us)
  ELSE IF body._id # {} /\ Val(body._id) # id
    THEN Throw("would modify the immutable field '_id'",
               {<<"_id", "immutable">>}, {}, us)
  ELSE IF ~emailUnique(us, Merge(Val(ById(us, id)), body))
    THEN Throw("E11000 duplicate key error", {<<"email", "dup">>}, {}, us)
  ELSE Ok(Merge(Val(ById(us, id)), body),
          (us \ ById(us, id)) \cup {Merge(Val(ById(us, id)), body)})

\* User.findByIdAndUpdate(id, body, {new: true, runValidators: true}):
\* cast the query, cast the update, run the update validators, then one
\* storage operation
findByIdAndUpdate(us, id, body) ==
  IF ~IsObjectId(id) THEN CastError(id, us)
  ELSE IF idCastError(body._id) # {} THEN CastError(Val(body._id), us)
  ELSE IF updateValidators(body) # {}
    THEN Throw("Validation failed", updateValidators(body), {}, us)
  ELSE storeUpdate(us, id, body)

\* mutant: the document is found and returned, and not removed
findByIdAndDeleteKeeps(us, id) ==
  IF ~IsObjectId(id) THEN CastError(id, us)
  ELSE IF ById(us, id) = {} THEN Null(us)
  ELSE Ok(Val(ById(us, id)), us)

\* User.findByIdAndDelete(id)
findByIdAndDelete(us, id) ==
  IF ~IsObjectId(id) THEN CastError(id, us)
  ELSE IF ById(us, id) = {} THEN Null(us)
  ELSE Ok(Val(ById(us, id)), us \ ById(us, id))

(***************************************************************************)
(* The handlers of routes/users.js: the response to a call's outcome.     *)
(***************************************************************************)
\* router.post('/')
postResponse(o) ==
  IF o.tag = "throw" THEN JsonError(400, o.text, o.detail, o.value)
  ELSE JsonDoc(201, Val(o.docs))

\* router.get('/:id')
getResponse(o) ==
  IF o.tag = "throw" THEN InvalidId
  ELSE IF o.tag = "null" THEN NotFound
  ELSE JsonDoc(200, Val(o.docs))

\* router.put('/:id')
putResponse(o) ==
  IF o.tag = "throw" THEN JsonError(400, o.text, o.detail, o.value)
  ELSE IF o.tag = "null" THEN NotFound
  ELSE JsonDoc(200, Val(o.docs))

\* router.delete('/:id')
deleteResponse(o) ==
  IF o.tag = "throw" THEN InvalidId
  ELSE IF o.tag = "null" THEN NotFound
  ELSE JsonMsg("Deleted successfully")

\* The _id of new User(body).  ObjectId() never repeats an identifier that
\* a document has had; the generated _id of a document that fails
\* validation is never stored or sent, and is not modelled.
NewIds(body) ==
  IF body._id # {} THEN body._id
  ELSE IF userSchema(body) # {} THEN {0}
  ELSE Ids \ used

NoRequest ==
  [ op |-> "none", id |-> {}, body |-> NoBody, res |-> NoResponse,
    before |-> {} ]

Served(o) ==
  /\ users' = o.users
  /\ used' = used \cup IdsOf(o.users)
  /\ UNCHANGED <<flight, groups, glast, conn>>

\* What the responses so far tell a client of the collection: the documents
\* returned by a POST answered 201 or a PUT answered 200, less those a
\* DELETE answered 200 has removed.
Live(l, rq) ==
  CASE rq.op = "POST" /\ rq.res.status = 201 -> l \cup rq.res.docs
    [] rq.op = "PUT" /\ rq.res.status = 200 ->
         {d \in l : {d._id} # rq.id} \cup rq.res.docs
    [] rq.op = "DELETE" /\ rq.res.status = 200 -> {d \in l : {d._id} # rq.id}
    [] OTHER -> l

\* no request to the groups router, no request whose call is awaited
NoGroupBody == [ groupname |-> {}, _id |-> {}, minGroupname |-> {} ]
NoGroupRequest ==
  [ op |-> "none", id |-> {}, body |-> NoGroupBody, res |-> NoResponse,
    before |-> {} ]
NoOutcome ==
  [ tag |-> "none", docs |-> {}, text |-> "", detail |-> {}, value |-> {},
    users |-> {} ]
NoConn ==
  [ pc |-> "idle", op |-> "none", id |-> {}, body |-> NoBody, oid |-> {},
    out |-> NoOutcome, sent |-> <<>>, before |-> {} ]

Init ==
  /\ users = {}
  /\ used = {}
  /\ gone = {}
  /\ last = NoRequest
  /\ flight = {}
  /\ live = {}
  /\ groups = {}
  /\ glast = NoGroupRequest
  /\ conn = NoConn

(***************************************************************************)
(* Spec: the requests are served one at a time.  `last` is the request     *)
(* being answered, its response and the collection before it, until the    *)
(* response is sent (Sent); `gone` is the set of identifiers deleted since *)
(* the last POST; `live` is the collection as the responses tell it.       *)
(***************************************************************************)
PostUser(body) ==
  \E oid \in NewIds(body) :
    LET o == save(users, body, oid) IN
      /\ Served(o)
      /\ gone' = {}
      /\ last' = [ op |-> "POST", id |-> {}, body |-> body,
                   res |-> postResponse(o), before |-> users ]
      /\ live' = Live(live, last')

GetUsers ==
  /\ UNCHANGED <<users, used, gone, flight, live, groups, glast, conn>>
  /\ last' = [ op |-> "LIST", id |-> {}, body |-> NoBody,
               res |-> JsonList(find(users)), before |-> users ]

GetUser(id) ==
  LET o == findById(users, id) IN
    /\ Served(o)
    /\ UNCHANGED gone
    /\ last' = [ op |-> "GET", id |-> {id}, body |-> NoBody,
                 res |-> getResponse(o), before |-> users ]
    /\ live' = Live(live, last')

PutUser(id, body) ==
  LET o == findByIdAndUpdate(users, id, body) IN
    /\ Served(o)
    /\ UNCHANGED gone
    /\ last' = [ op |-> "PUT", id |-> {id}, body |-> body,
                 res |-> putResponse(o), before |-> users ]
    /\ live' = Live(live, last')

DeleteUser(id) ==
  LET o == findByIdAndDelete(users, id) IN
    /\ Served(o)
    /\ gone' = IF o.tag = "ok" THEN gone \cup {id} ELSE gone
    /\ last' = [ op |-> "DELETE", id |-> {id}, body |-> NoBody,
                 res |-> deleteResponse(o), before |-> users ]
    /\ live' = Live(live, last')

\* the response is on the wire
Sent ==
  /\ last # NoRequest
  /\ last' = NoRequest
  /\ UNCHANGED <<users, used, gone, flight, live, groups, glast, conn>>

\* The routes of the router: the server takes a request when the response
\* to the last one is sent.
Idle == last = NoRequest

RoutePost == Idle /\ \E body \in Bodies : PostUser(body)
RouteList == Idle /\ GetUsers
RouteGet == Idle /\ \E id \in Ids \cup BadIds : GetUser(id)
RoutePut == Idle /\ \E id \in Ids \cup BadIds, body \in Bodies : PutUser(id, body)
RouteDelete == Idle /\ \E id \in Ids \cup BadIds : DeleteUser(id)

Next ==
  \/ RoutePost
  \/ RouteList
  \/ RouteGet
  \/ RoutePut
  \/ RouteDelete
  \/ Sent

Spec == Init /\ [][Next]_vars

(***************************************************************************)
(* ConcSpec: requests in flight together.  A handler runs to its `await`   *)
(* (Accept); Mongoose validates in the server process and, if the request  *)
(* passes, the storage executes the one operation of the call atomically,  *)
(* at any later time (Storage); then the handler sends the response        *)
(* (Respond).  `alone` of a request in flight is FALSE once the write of    *)
(* another request has removed or changed a document.                      *)
(***************************************************************************)
ConcEmailA == <<"a", "@", "b", ".", "c">>
ConcEmailB == <<"x", "@", "y", ".", "z">>

\* the bodies sent under ConcSpec: two users and a user with email "invalid"
\* to POST, a change of email to PUT
ConcBodies ==
  { [ username |-> {"abc"}, email |-> {e}, password |-> {"123456"}, _id |-> {},
      minUsername |-> {} ] :
      e \in {ConcEmailA, ConcEmailB, <<"i", "n", "v", "a", "l", "i", "d">>} }
ConcUpdates ==
  { [NoBody EXCEPT !.email = {ConcEmailB}] }

\* the Mongoose call of a handler
Call(us, r) ==
  CASE r.op = "POST" -> save(us, r.body, Val(r.oid))
    [] r.op = "GET" -> findById(us, Val(r.id))
    [] r.op = "PUT" -> findByIdAndUpdate(us, Val(r.id), r.body)
    [] r.op = "DELETE" -> findByIdAndDelete(us, Val(r.id))

\* the handler's response to the outcome of its call
Response(r, o) ==
  CASE r.op = "POST" -> postResponse(o)
    [] r.op = "GET" -> getResponse(o)
    [] r.op = "PUT" -> putResponse(o)
    [] r.op = "DELETE" -> deleteResponse(o)

\* the call throws in the server process, before any storage operation
ThrowsLocally(r) ==
  CASE r.op = "POST" -> userSchema(r.body) # {}
    [] r.op = "PUT" ->
         \/ ~IsObjectId(Val(r.id))
         \/ idCastError(r.body._id) # {}
         \/ updateValidators(r.body) # {}
    [] OTHER -> ~IsObjectId(Val(r.id))

\* identifiers that ObjectId() can generate for a request accepted now
FreshIds == Ids \ (used \cup UNION {r.oid : r \in flight})

\* the handler of r runs to its await: the call throws at once, or its
\* storage operation is under way
Enter(r) ==
  IF ThrowsLocally(r)
    THEN [ r EXCEPT !.pc = "done", !.res = Response(r, Call(users, r)) ]
    ELSE r

\* a request arrives that is not the same as one in flight
Accepted(r) ==
  /\ Enter(r) \notin flight
  /\ flight' = flight \cup {Enter(r)}
  /\ UNCHANGED <<users, used, gone, last, live, groups, glast, conn>>

AcceptPost(body) ==
  /\ Cardinality(flight) < MaxInFlight
  /\ \E oid \in FreshIds :
    Accepted([ pc |-> "sent", op |-> "POST", id |-> {}, body |-> body,
               oid |-> {oid}, res |-> NoResponse, alone |-> TRUE ])

AcceptGet(id) ==
  /\ Cardinality(flight) < MaxInFlight
  /\ Accepted([ pc |-> "sent", op |-> "GET", id |-> {id}, body |-> NoBody,
                oid |-> {}, res |-> NoResponse, alone |-> TRUE ])

AcceptPut(id, body) ==
  /\ Cardinality(flight) < MaxInFlight
  /\ Accepted([ pc |-> "sent", op |-> "PUT", id |-> {id}, body |-> body,
                oid |-> {}, res |-> NoResponse, alone |-> TRUE ])

AcceptDelete(id) ==
  /\ Cardinality(flight) < MaxInFlight
  /\ Accepted([ pc |-> "sent", op |-> "DELETE", id |-> {id}, body |-> NoBody,
                oid |-> {}, res |-> NoResponse, alone |-> TRUE ])

\* the storage operation of the call of r; the handler resumes with its
\* outcome
Storage(r) ==
  /\ r.pc = "sent"
  /\ LET o == Call(users, r) IN
       /\ users' = o.users
       /\ used' = used \cup IdsOf(o.users)
       /\ flight' =
            { IF users \subseteq o.users THEN t ELSE [ t EXCEPT !.alone = FALSE ] :
                t \in flight \ {r} }
              \cup { [ r EXCEPT !.pc = "done", !.res = Response(r, o) ] }
  /\ UNCHANGED <<gone, last, live, groups, glast, conn>>

\* res.json(..): the response leaves
Respond(r) ==
  /\ r.pc = "done"
  /\ flight' = flight \ {r}
  /\ UNCHANGED <<users, used, gone, last, live, groups, glast, conn>>

ConcNext ==
  \/ \E body \in ConcBodies : AcceptPost(body)
  \/ \E id \in Ids : AcceptGet(id)
  \/ \E id \in Ids, body \in ConcUpdates : AcceptPut(id, body)
  \/ \E id \in Ids : AcceptDelete(id)
  \/ \E r \in flight : Storage(r)
  \/ \E r \in flight : Respond(r)

ConcSpec == Init /\ [][ConcNext]_vars

(***************************************************************************)
(* The model `groups` (models/groups.js) and the groups router.  The        *)
(* router has the handlers of the users router, on the collection          *)
(* `groups`; `glast` is to it what `last` is to the users router.          *)
(***************************************************************************)
GroupnameMinLength == 3
GroupnameMaxLength == 50

GroupnamePool == UsernamePool

\* req.body of a request for a group: keys of the schema, or
\* {"$min": {"groupname": ""}}
GroupBodies ==
  [ groupname : Opt(GroupnamePool), _id : Opt(Ids \cup {0}),
    minGroupname : {{}} ]
    \cup { [NoGroupBody EXCEPT !.minGroupname = {""}] }

groupnameError(o) ==
  IF Required(o) THEN {<<"groupname", "required">>}
  ELSE IF Len(Val(o)) < GroupnameMinLength THEN {<<"groupname", "minlength">>}
  ELSE IF Len(Val(o)) > GroupnameMaxLength THEN {<<"groupname", "maxlength">>}
  ELSE {}

groupchema(body) == idCastError(body._id) \cup groupnameError(body.groupname)

groupUpdateValidators(body) ==
  IF body.groupname = {} THEN {} ELSE groupnameError(body.groupname)

\* new Group(req.body)
NewGroup(body, oid) == [ _id |-> oid, groupname |-> Val(body.groupname) ]

\* group.save()
groupSave(gs, body, oid) ==
  IF groupchema(body) # {}
    THEN Throw("groups validation failed", groupchema(body), {}, gs)
  ELSE IF ~idUnique(gs, NewGroup(body, oid))
    THEN Throw("E11000 duplicate key error", {<<"_id", "dup">>}, {}, gs)
  ELSE Ok(NewGroup(body, oid), gs \cup {NewGroup(body, oid)})

GroupMerge(d, body) ==
  [ _id |-> d._id,
    groupname |-> IF body.minGroupname # {} THEN Val(body.minGroupname)
                  ELSE IF body.groupname = {} THEN d.groupname
                  ELSE Val(body.groupname) ]

groupStoreUpdate(gs, id, body) ==
  IF body.groupname # {} /\ body.minGroupname # {}
    THEN Throw("Updating the path 'groupname' would create a conflict",
               {<<"groupname", "conflict">>}, {}, gs)
  ELSE IF ById(gs, id) = {} THEN Null(gs)
  ELSE IF body._id # {} /\ Val(body._id) # id
    THEN Throw("would modify the immutable field '_id'",
               {<<"_id", "immutable">>}, {}, gs)
  ELSE Ok(GroupMerge(Val(ById(gs, id)), body),
          (gs \ ById(gs, id)) \cup {GroupMerge(Val(ById(gs, id)), body)})

\* Group.findByIdAndUpdate(id, body, {new: true, runValidators: true})
groupFindByIdAndUpdate(gs, id, body) ==
  IF ~IsObjectId(id) THEN CastError(id, gs)
  ELSE IF idCastError(body._id) # {} THEN CastError(Val(body._id), gs)
  ELSE IF groupUpdateValidators(body) # {}
    THEN Throw("Validation failed", groupUpdateValidators(body), {}, gs)
  ELSE groupStoreUpdate(gs, id, body)

GroupNotFound == JsonError(404, "Group not found", {}, {})
InvalidGroupId == JsonError(400, "Invalid group ID", {}, {})

\* router.post('/')
groupPostResponse(o) ==
  IF o.tag = "throw" THEN JsonError(400, o.text, o.detail, o.value)
  ELSE JsonDoc(201, Val(o.docs))

\* router.get('/:id')
groupGetResponse(o) ==
  IF o.tag = "throw" THEN InvalidGroupId
  ELSE IF o.tag = "null" THEN GroupNotFound
  ELSE JsonDoc(200, Val(o.docs))

\* router.put('/:id')
groupPutResponse(o) ==
  IF o.tag = "throw" THEN JsonError(400, o.text, o.detail, o.value)
  ELSE IF o.tag = "null" THEN GroupNotFound
  ELSE JsonDoc(200, Val(o.docs))

\* router.delete('/:id')
groupDeleteResponse(o) ==
  IF o.tag = "throw" THEN InvalidGroupId
  ELSE IF o.tag = "null" THEN GroupNotFound
  ELSE JsonMsg("Deleted successfully")

\* the _id of new Group(body); ObjectId() is one generator for both models
NewGroupIds(body) ==
  IF body._id # {} THEN body._id
  ELSE IF groupchema(body) # {} THEN {0}
  ELSE Ids \ used

GroupServed(o) ==
  /\ groups' = o.users
  /\ used' = used \cup IdsOf(o.users)
  /\ UNCHANGED <<users, gone, last, flight, live, conn>>

\* mutant: the handler saves the document with the model of the users
PostGroupAsUser(body) ==
  \E oid \in NewGroupIds(body) :
    LET o == groupSave(groups, body, oid) IN
      /\ users' = users \cup o.docs
      /\ groups' = groups
      /\ used' = used \cup IdsOf(o.users)
      /\ UNCHANGED <<gone, last, flight, live, conn>>
      /\ glast' = [ op |-> "POST", id |-> {}, body |-> body,
                    res |-> groupPostResponse(o), before |-> groups ]

PostGroup(body) ==
  \E oid \in NewGroupIds(body) :
    LET o == groupSave(groups, body, oid) IN
      /\ GroupServed(o)
      /\ glast' = [ op |-> "POST", id |-> {}, body |-> body,
                    res |-> groupPostResponse(o), before |-> groups ]

GetGroups ==
  /\ UNCHANGED <<users, used, gone, last, flight, live, groups, conn>>
  /\ glast' = [ op |-> "LIST", id |-> {}, body |-> NoGroupBody,
                res |-> JsonList(find(groups)), before |-> groups ]

GetGroup(id) ==
  LET o == findById(groups, id) IN
    /\ GroupServed(o)
    /\ glast' = [ op |-> "GET", id |-> {id}, body |-> NoGroupBody,
                  res |-> groupGetResponse(o), before |-> groups ]

PutGroup(id, body) ==
  LET o == groupFindByIdAndUpdate(groups, id, body) IN
    /\ GroupServed(o)
    /\ glast' = [ op |-> "PUT", id |-> {id}, body |-> body,
                  res |-> groupPutResponse(o), before |-> groups ]

DeleteGroup(id) ==
  LET o == findByIdAndDelete(groups, id) IN
    /\ GroupServed(o)
    /\ glast' = [ op |-> "DELETE", id |-> {id}, body |-> NoGroupBody,
                  res |-> groupDeleteResponse(o), before |-> groups ]

\* the response to the request for a group is on the wire
GroupSent ==
  /\ glast # NoGroupRequest
  /\ glast' = NoGroupRequest
  /\ UNCHANGED <<users, used, gone, last, flight, live, groups, conn>>

(***************************************************************************)
(* RoutersSpec: the two routers, each given its requests directly, one     *)
(* request at a time.                                                      *)
(***************************************************************************)
\* the bodies sent to the users router under RoutersSpec
RoutersBodies == ConcBodies
RoutersUpdates == ConcUpdates \cup { [NoBody EXCEPT !.minUsername = {""}] }

RoutersIdle == last = NoRequest /\ glast = NoGroupRequest

UsersPost == RoutersIdle /\ \E body \in RoutersBodies : PostUser(body)
UsersList == RoutersIdle /\ GetUsers
UsersGet == RoutersIdle /\ \E id \in Ids \cup BadIds : GetUser(id)
UsersPut ==
  RoutersIdle /\ \E id \in Ids \cup BadIds, body \in RoutersUpdates : PutUser(id, body)
UsersDelete == RoutersIdle /\ \E id \in Ids \cup BadIds : DeleteUser(id)

GroupsPost == RoutersIdle /\ \E body \in GroupBodies : PostGroup(body)
GroupsList == RoutersIdle /\ GetGroups
GroupsGet == RoutersIdle /\ \E id \in Ids \cup BadIds : GetGroup(id)
GroupsPut ==
  RoutersIdle /\ \E id \in Ids \cup BadIds, body \in GroupBodies : PutGroup(id, body)
GroupsDelete == RoutersIdle /\ \E id \in Ids \cup BadIds : DeleteGroup(id)

RoutersNext ==
  \/ UsersPost
  \/ UsersList
  \/ UsersGet
  \/ UsersPut
  \/ UsersDelete
  \/ Sent
  \/ GroupsPost
  \/ GroupsList
  \/ GroupsGet
  \/ GroupsPut
  \/ GroupsDelete
  \/ GroupSent

RoutersSpec == Init /\ [][RoutersNext]_vars

(***************************************************************************)
(* ServerSpec: the application of server.js.  It answers GET / itself,     *)
(* hands the requests under /users to the users router, and mounts no      *)
(* other router: Express answers every other request with 404 and a page   *)
(* "Cannot <METHOD> <path>".                                               *)
(***************************************************************************)
\* app.use('/users', userRoutes)
Mounted == {"/users"}

\* app.get('/', ..): res.send('API is running')
Running ==
  [ status |-> 200, kind |-> "text", docs |-> {}, text |-> "API is running",
    detail |-> {}, value |-> {} ]

\* the response of Express to a request that no route has taken
CannotRoute(method, base) ==
  [ status |-> 404, kind |-> "html", docs |-> {}, text |-> "Cannot",
    detail |-> {<<method, base>>}, value |-> {} ]

\* the requests sent under /groups
GroupRequests ==
  { [ op |-> "POST", id |-> {}, body |-> b ] : b \in GroupBodies }
    \cup { [ op |-> "LIST", id |-> {}, body |-> NoGroupBody ] }
    \cup { [ op |-> o, id |-> {i}, body |-> NoGroupBody ] :
             o \in {"GET", "DELETE"}, i \in Ids \cup BadIds }
    \cup { [ op |-> "PUT", id |-> {i}, body |-> b ] :
             i \in Ids \cup BadIds, b \in GroupBodies }

\* the groups router takes the request
GroupRoute(rq) ==
  CASE rq.op = "POST" -> PostGroup(rq.body)
    [] rq.op = "LIST" -> GetGroups
    [] rq.op = "GET" -> GetGroup(Val(rq.id))
    [] rq.op = "PUT" -> PutGroup(Val(rq.id), rq.body)
    [] rq.op = "DELETE" -> DeleteGroup(Val(rq.id))

\* no route takes the request
Unrouted(rq, base) ==
  /\ glast' = [ op |-> rq.op, id |-> rq.id, body |-> rq.body,
                res |-> CannotRoute(rq.op, base), before |-> groups ]
  /\ UNCHANGED <<users, used, gone, last, flight, live, groups, conn>>

ServeRoot ==
  /\ RoutersIdle
  /\ last' = [ op |-> "ROOT", id |-> {}, body |-> NoBody, res |-> Running,
               before |-> users ]
  /\ UNCHANGED <<users, used, gone, flight, live, groups, glast, conn>>

ServeUsersPost ==
  RoutersIdle /\ "/users" \in Mounted /\ \E body \in RoutersBodies : PostUser(body)
ServeUsersList == RoutersIdle /\ "/users" \in Mounted /\ GetUsers
ServeUsersGet ==
  RoutersIdle /\ "/users" \in Mounted /\ \E id \in Ids \cup BadIds : GetUser(id)
ServeUsersPut ==
  /\ RoutersIdle
  /\ "/users" \in Mounted
  /\ \E id \in Ids \cup BadIds, body \in RoutersUpdates : PutUser(id, body)
ServeUsersDelete ==
  RoutersIdle /\ "/users" \in Mounted /\ \E id \in Ids \cup BadIds : DeleteUser(id)

ServeGroups ==
  /\ RoutersIdle
  /\ \E rq \in GroupRequests :
       IF "/groups" \in Mounted THEN GroupRoute(rq) ELSE Unrouted(rq, "/groups")

ServerNext ==
  \/ ServeRoot
  \/ ServeUsersPost
  \/ ServeUsersList
  \/ ServeUsersGet
  \/ ServeUsersPut
  \/ ServeUsersDelete
  \/ ServeGroups
  \/ Sent
  \/ GroupSent

ServerSpec == Init /\ [][ServerNext]_vars

(***************************************************************************)
(* FaultSpec: the users router with a storage that can fail.  A request    *)
(* arrives and its handler runs to the await (Arrive); the call returns or *)
(* throws as the collection decides (Resolve), or it throws an error of    *)
(* the storage layer, such as a lost connection (Fault); the handler       *)
(* resumes and sends what it sends (Resume).  A rejection that no handler  *)
(* catches leaves the request without a response: the client gives up      *)
(* (Abandon), or the process ends on the unhandled rejection (Crash).      *)
(***************************************************************************)
\* the requests sent under FaultSpec
FaultRequests ==
  { [ op |-> "POST", id |-> {}, body |-> b ] : b \in ConcBodies }
    \cup { [ op |-> "LIST", id |-> {}, body |-> NoBody ] }
    \cup { [ op |-> o, id |-> {i}, body |-> NoBody ] :
             o \in {"GET", "DELETE"}, i \in Ids \cup {0} }
    \cup { [ op |-> "PUT", id |-> {i}, body |-> b ] :
             i \in Ids \cup {0}, b \in ConcUpdates }

\* an error of the storage layer, thrown by the awaited call
StorageFault(us) == Throw("connection to the storage lost", {}, {}, us)

\* the Mongoose call of a handler, User.find() included
ConnCall(us, r) ==
  IF r.op = "LIST"
    THEN [ tag |-> "ok", docs |-> find(us), text |-> "", detail |-> {},
           value |-> {}, users |-> us ]
    ELSE Call(us, r)

\* the call of r reaches the storage
ReachesStorage(r) == IF r.op = "LIST" THEN TRUE ELSE ~ThrowsLocally(r)

\* mutant: the not-found branch does not return
SendsFallsThrough(r, o) ==
  IF r.op = "LIST"
    THEN IF o.tag = "throw" THEN <<>> ELSE <<JsonList(o.docs)>>
  ELSE IF o.tag = "null"
    THEN <<Response(r, o), JsonMsg("Deleted successfully")>>
  ELSE <<Response(r, o)>>

\* mutant: the handler of GET / catches too, and answers 500
SendsListCaught(r, o) ==
  IF r.op = "LIST"
    THEN IF o.tag = "throw"
           THEN <<JsonError(500, o.text, o.detail, o.value)>>
           ELSE <<JsonList(o.docs)>>
    ELSE <<Response(r, o)>>

\* The responses a handler sends after its await, in order.  The handler of
\* GET / has no try: when its call throws, it sends nothing.  Every other
\* handler sends one response on each of its paths (the not-found branch
\* returns).
Sends(r, o) ==
  IF r.op = "LIST"
    THEN IF o.tag = "throw" THEN <<>> ELSE <<JsonList(o.docs)>>
    ELSE <<Response(r, o)>>

Arrive(rq) ==
  /\ conn.pc = "idle"
  /\ \E oid \in IF rq.op = "POST" THEN NewIds(rq.body) ELSE {0} :
       conn' = [ pc |-> "await", op |-> rq.op, id |-> rq.id, body |-> rq.body,
                 oid |-> IF rq.op = "POST" THEN {oid} ELSE {},
                 out |-> NoOutcome, sent |-> <<>>, before |-> users ]
  /\ UNCHANGED <<users, used, gone, last, flight, live, groups, glast>>

Resolve ==
  /\ conn.pc = "await"
  /\ LET o == ConnCall(users, conn) IN
       /\ users' = o.users
       /\ used' = used \cup IdsOf(o.users)
       /\ conn' = [ conn EXCEPT !.pc = "settled", !.out = o ]
  /\ UNCHANGED <<gone, last, flight, live, groups, glast>>

Fault ==
  /\ conn.pc = "await"
  /\ ReachesStorage(conn)
  /\ conn' = [ conn EXCEPT !.pc = "settled", !.out = StorageFault(users) ]
  /\ UNCHANGED <<users, used, gone, last, flight, live, groups, glast>>

Resume ==
  /\ conn.pc = "settled"
  /\ conn' = [ conn EXCEPT
                 !.pc = IF Sends(conn, conn.out) = <<>> THEN "lost" ELSE "end",
                 !.sent = Sends(conn, conn.out) ]
  /\ UNCHANGED <<users, used, gone, last, flight, live, groups, glast>>

\* the response is on the wire
Close ==
  /\ conn.pc = "end"
  /\ conn' = NoConn
  /\ UNCHANGED <<users, used, gone, last, flight, live, groups, glast>>

Abandon ==
  /\ conn.pc = "lost"
  /\ conn' = NoConn
  /\ UNCHANGED <<users, used, gone, last, flight, live, groups, glast>>

Crash ==
  /\ conn.pc = "lost"
  /\ conn' = [ conn EXCEPT !.pc = "down" ]
  /\ UNCHANGED <<users, used, gone, last, flight, live, groups, glast>>

FaultNext ==
  \/ \E rq \in FaultRequests : Arrive(rq)
  \/ Resolve
  \/ Fault
  \/ Resume
  \/ Close
  \/ Abandon
  \/ Crash

\* the event loop runs the continuation of a handler whose call has settled
FaultSpec == Init /\ [][FaultNext]_vars /\ WF_vars(Resume)

(***************************************************************************)
(* The claims.  The field rules are restated here from the specification,  *)
(* not taken from the validators above.                                    *)
(***************************************************************************)
UsernameOk(o) == o # {} /\ Len(Val(o)) >= 3 /\ Len(Val(o)) <= 50
EmailOk(o) == o # {} /\ EmailMatch(Val(o))
PasswordOk(o) == o # {} /\ Len(Val(o)) >= 6
RulesOk(b) == UsernameOk(b.username) /\ EmailOk(b.email) /\ PasswordOk(b.password)

\* the request being answered addresses the stored document d
Targets(d) == d \in last.before /\ last.id = {d._id}

\* the fields of d with the supplied fields of the body merged in
MergedFields(d, b) ==
  [ username |-> IF b.minUsername # {} THEN b.minUsername
                 ELSE IF b.username = {} THEN {d.username}
                 ELSE b.username,
    email |-> IF b.email = {} THEN {d.email} ELSE b.email,
    password |-> IF b.password = {} THEN {d.password} ELSE b.password ]

\* C1 as stated: a POST whose username has 3..50 characters, whose email
\* matches the pattern and is not stored, and whose password has at least 6
\* characters is answered 201, adds exactly one document, and returns it with
\* a newly assigned _id and the fields of the input.
C1_AsClaimed ==
  (last.op = "POST" /\ RulesOk(last.body)
     /\ \A e \in last.before : e.email # Val(last.body.email))
  => /\ last.res.status = 201
     /\ \E d \in users :
          /\ d \notin last.before
          /\ users = last.before \cup {d}
          /\ last.res.docs = {d}
          /\ d._id \notin IdsOf(last.before)
          /\ d.username = Val(last.body.username)
          /\ d.email = Val(last.body.email)
          /\ d.password = Val(last.body.password)

\* C2: a POST that breaks a field rule (a field missing or empty, a username
\* outside 3..50 characters, a password under 6, an email that does not match,
\* such as "invalid") is answered 400 with an error message and leaves the
\* collection as it was.
C2_InvalidCreateRejected ==
  (last.op = "POST"
     /\ (~RulesOk(last.body)
           \/ last.body.email = {<<"i", "n", "v", "a", "l", "i", "d">>}))
  => /\ last.res.status = 400
     /\ last.res.kind = "error"
     /\ last.res.text # ""
     /\ users = last.before

C2_Witness ==
  /\ last.op = "POST"
  /\ last.body.username = {"abc"}
  /\ last.body.email = {<<"i", "n", "v", "a", "l", "i", "d">>}
  /\ last.body.password = {"123456"}
  /\ last.res.status = 400
  /\ last.before # {}

\* C3: no two stored users have the same email; a POST with the email of a
\* stored user is answered 400 and stores nothing; a PUT that would give a
\* user the email of another stored user does not take effect.
C3_EmailUnique ==
  /\ \A d \in users, e \in users : d.email = e.email => d = e
  /\ (last.op = "POST" /\ last.body.email # {}
        /\ \E e \in last.before : e.email = Val(last.body.email))
     => (last.res.status = 400 /\ users = last.before)
  /\ \A d \in last.before, e \in last.before :
       (last.op = "PUT" /\ Targets(d) /\ e # d /\ last.body.email = {e.email})
       => users = last.before

C3_Witness ==
  /\ last.op = "PUT"
  /\ \E d \in last.before, e \in last.before :
       Targets(d) /\ e # d /\ last.body.email = {e.email}
  /\ last.body.username = {}
  /\ last.body.password = {}
  /\ last.body._id = {}
  /\ last.res.status = 400

\* C5: GET /:id answers 200 with the stored document when the identifier is
\* that of a stored document, 404 when it is well-formed and no stored
\* document has it, 400 when it is not well-formed.  The document a POST
\* returns is stored, and a stored document stays as it is through every
\* request but a PUT or DELETE on its identifier.
C5_GetOutcomes ==
  /\ last.op = "GET" =>
       /\ \A d \in last.before : Targets(d) => last.res = JsonDoc(200, d)
       /\ (last.id \subseteq Ids /\ last.id \cap IdsOf(last.before) = {})
            => last.res.status = 404
       /\ ~(last.id \subseteq Ids) => last.res.status = 400
       /\ last.res.status \in {200, 400, 404}
  /\ (last.op = "POST" /\ last.res.status = 201) => last.res.docs \subseteq users
  /\ \A d \in last.before :
       (last.op \in {"POST", "LIST", "GET"} \/ last.id # {d._id}) => d \in users

C5_Witness ==
  /\ last.op = "GET"
  /\ \E d \in users : Targets(d) /\ last.res = JsonDoc(200, d)
  /\ Cardinality(users) = 2

\* C6: a PUT on a stored user with only a valid username is answered 200 with
\* the merged document: the new username, the stored email, password and
\* _id; no other stored document changes.
C6_UsernameOnlyUpdate ==
  \A d \in last.before :
    (last.op = "PUT" /\ Targets(d) /\ UsernameOk(last.body.username)
       /\ last.body.email = {} /\ last.body.password = {} /\ last.body._id = {}
       /\ last.body.minUsername = {})
    => /\ last.res =
            JsonDoc(200, [ _id |-> d._id, username |-> Val(last.body.username),
                           email |-> d.email, password |-> d.password ])
       /\ users = (last.before \ {d}) \cup last.res.docs

C6_Witness ==
  /\ last.op = "PUT"
  /\ last.body = [NoBody EXCEPT !.username = {"abc"}]
  /\ \E d \in last.before : Targets(d) /\ d.username # "abc"
  /\ last.res.status = 200
  /\ Cardinality(users) = 2

\* C7 as stated: a PUT on a stored document, of which the resulting document
\* breaks a field rule of Create, is answered 400 with the message of the
\* failed validation, and the collection is left as it was.
C7_AsClaimed ==
  \A d \in last.before :
    (last.op = "PUT" /\ Targets(d) /\ ~RulesOk(MergedFields(d, last.body)))
    => /\ last.res.status = 400
       /\ last.res.kind = "error"
       /\ last.res.detail # {}
       /\ users = last.before

\* C8: DELETE /:id on the identifier of a stored document is answered 200
\* with {msg: "Deleted successfully"} and removes exactly that document; as
\* long as no POST is served, every GET on that identifier is answered 404.
C8_DeleteThenGet ==
  /\ \A d \in last.before :
       (last.op = "DELETE" /\ Targets(d))
       => /\ last.res.status = 200
          /\ last.res.kind = "msg"
          /\ last.res.text = "Deleted successfully"
          /\ users = last.before \ {d}
  /\ (last.op = "GET" /\ last.id \subseteq gone) => last.res.status = 404

C8_Witness ==
  /\ last.op = "GET"
  /\ last.id \subseteq gone
  /\ last.res.status = 404
  /\ users # {}

\* C9 as stated: PUT and DELETE on a well-formed identifier that no stored
\* document has are answered 404 and leave the collection as it was.
C9_AsClaimed ==
  (last.op \in {"PUT", "DELETE"} /\ last.id \subseteq Ids
     /\ last.id \cap IdsOf(last.before) = {})
  => (last.res.status = 404 /\ users = last.before)

\* C10 as stated: GET, PUT and DELETE answer an identifier that is not
\* well-formed with 400 and one fixed body, whatever the identifier and the
\* payload.
C10_AsClaimed ==
  (last.op \in {"GET", "PUT", "DELETE"} /\ ~(last.id \subseteq Ids))
  => last.res = JsonError(400, "Invalid user ID", {}, {})

\* C11: GET / is answered 200 with a list of exactly the documents that the
\* responses so far have reported stored: those returned by a POST answered
\* 201, in the form of the last PUT answered 200, less those a DELETE
\* answered 200 has removed.  These are the stored documents.
C11_ListAll ==
  /\ live = users
  /\ last.op = "LIST" =>
       /\ last.res.status = 200
       /\ last.res.kind = "list"
       /\ last.res.docs = live

C11_Witness ==
  /\ last.op = "LIST"
  /\ Cardinality(last.res.docs) = 1
  /\ used = Ids
  /\ gone # {}
  /\ \E d \in last.res.docs : d.username # "abc" /\ d.password = "123456"

\* C4: of two POSTs with the same email that are in flight together, with no
\* write of another request between them, at most one is answered 201 and
\* stored; one that is not is answered 400 with an error body, and its
\* document is not stored.
C4_ConcurrentCreates ==
  \A r \in flight, t \in flight :
    (/\ r # t
     /\ r.op = "POST" /\ t.op = "POST"
     /\ r.body.email = t.body.email
     /\ r.pc = "done" /\ t.pc = "done"
     /\ r.alone /\ t.alone)
    => /\ ~(r.res.status = 201 /\ t.res.status = 201)
       /\ r.res.status # 201
            => /\ r.res.status = 400
               /\ r.res.kind = "error"
               /\ r.oid \cap IdsOf(users) = {}

C4_Witness ==
  \E r \in flight, t \in flight :
    /\ r.op = "POST" /\ t.op = "POST"
    /\ r.body.email = {ConcEmailA} /\ t.body.email = {ConcEmailA}
    /\ r.pc = "done" /\ t.pc = "done"
    /\ r.alone /\ t.alone
    /\ r.res.status = 400
    /\ r.res.detail = {<<"email", "dup">>}
    /\ t.res.status = 201
    /\ t.res.docs \subseteq users

\* the rule of the specification for a groupname
GroupnameOk(o) == o # {} /\ Len(Val(o)) >= 3 /\ Len(Val(o)) <= 50

\* the responses of the handler of the groups router to the request rq
GroupRouterResponses(rq) ==
  CASE rq.op = "POST" ->
         { groupPostResponse(groupSave(rq.before, rq.body, oid)) :
             oid \in NewGroupIds(rq.body) }
    [] rq.op = "LIST" -> { JsonList(find(rq.before)) }
    [] rq.op = "GET" -> { groupGetResponse(findById(rq.before, Val(rq.id))) }
    [] rq.op = "PUT" ->
         { groupPutResponse(groupFindByIdAndUpdate(rq.before, Val(rq.id), rq.body)) }
    [] rq.op = "DELETE" ->
         { groupDeleteResponse(findByIdAndDelete(rq.before, Val(rq.id))) }

\* C12 as stated: each of the five operations sent to the server under
\* /groups reaches the handler of the groups router and is answered by it,
\* with the status that handler gives (201, 200, 400, 404 as under /users).
C12_AsClaimed ==
  glast.op # "none" =>
    /\ glast.res \in GroupRouterResponses(glast)
    /\ glast.res.status \in {200, 201, 400, 404}
    /\ glast.res.kind # "html"

\* C13 as stated: a POST to the groups router is answered 201 and stores the
\* group exactly when the body has a groupname of 3..50 characters; else it
\* is answered 400 and stores nothing.
C13_AsClaimed ==
  glast.op = "POST" =>
    IF GroupnameOk(glast.body.groupname)
      THEN /\ glast.res.status = 201
           /\ \E g \in groups :
                /\ g \notin glast.before
                /\ groups = glast.before \cup {g}
                /\ g.groupname = Val(glast.body.groupname)
      ELSE /\ glast.res.status = 400
           /\ groups = glast.before

\* C17 as stated: every stored user has a username of 3..50 characters, an
\* email that matches the pattern and a password of at least 6 characters,
\* and every stored group has a groupname of 3..50 characters, whatever the
\* payloads of the Updates served.
C17_AsClaimed ==
  /\ \A d \in users :
       /\ UsernameOk({d.username})
       /\ EmailOk({d.email})
       /\ PasswordOk({d.password})
  /\ \A g \in groups : GroupnameOk({g.groupname})

\* C19: a List and a Get by id, of users or of groups, leave both
\* collections as they were.
C19_ReadsKeepStore ==
  /\ last.op \in {"LIST", "GET"} => users = last.before /\ live = last.before
  /\ glast.op \in {"LIST", "GET"} => groups = glast.before

C19_Witness ==
  /\ glast.op = "GET"
  /\ glast.res.status = 200
  /\ Cardinality(groups) = 2
  /\ Cardinality(users) = 2

C15_AsClaimed ==
  [][ /\ (last.op = "none" /\ last'.op = "POST" /\ last'.res.status = 201)
           => \A d \in last'.res.docs : d._id \notin used
      /\ (last.op = "none" /\ last'.op = "PUT")
           => /\ IdsOf(users') = IdsOf(users)
              /\ last'.res.status = 200
                   => \A d \in last'.res.docs : {d._id} = last'.id ]_vars

\* r is a request in flight whose storage operation is done
Done(r, op) == r.op = op /\ r.pc = "done"

\* C18: the storage operations of requests in flight together take effect
\* one at a time, and each response is that of its operation at its turn:
\* the document a DELETE answered 200 has removed is not stored; once a
\* DELETE of an identifier is answered 200, no PUT of that identifier in
\* flight with it comes to be answered 200 (both are answered 200 only when
\* the update took effect first); and the document that a POST, GET or PUT
\* has returned is stored as returned, as long as no later write has removed
\* or changed a document.
C18_OneAtATime ==
  /\ [](\A r \in flight :
          /\ (Done(r, "DELETE") /\ r.res.status = 200)
               => r.id \cap IdsOf(users) = {}
          /\ (r.pc = "done" /\ r.op # "DELETE" /\ r.res.status \in {200, 201}
                /\ r.alone)
               => r.res.docs \subseteq users)
  /\ [][ \A r \in flight, t \in flight' :
           (/\ Done(r, "DELETE") /\ r.res.status = 200
            /\ Done(t, "PUT") /\ t.id = r.id /\ t.res.status = 200)
           => \E t0 \in flight : Done(t0, "PUT") /\ t0.id = t.id /\ t0.res = t.res ]_vars

C18_Witness ==
  \E r \in flight, t \in flight :
    /\ Done(r, "DELETE") /\ r.res.status = 200
    /\ Done(t, "PUT") /\ t.id = r.id /\ t.res.status = 200
    /\ t.res.docs \cap users = {}
    /\ users # {}

\* the call of the request c has thrown an error of the storage layer
IsFault(c) == c.out = StorageFault(c.before)

\* the handler of the request c has run to its end
Over(c) == c.pc \in {"end", "lost", "down"}

\* C14: no handler sends two responses for one request, and once the call
\* of a POST, GET /:id, PUT or DELETE has returned or thrown, the request
\* gets its one response.
C14_OneResponse ==
  /\ [](Len(conn.sent) <= 1)
  /\ (conn.pc = "settled" /\ conn.op \in {"POST", "GET", "PUT", "DELETE"})
       ~> (conn.pc = "end" /\ Len(conn.sent) = 1)

C14_Witness ==
  /\ conn.pc = "end"
  /\ conn.op = "PUT"
  /\ conn.out.tag = "null"
  /\ conn.sent = <<NotFound>>
  /\ users # {}

====
